---- MODULE Spec2Model ----
\* StudBotty: the Agent (registry, deterministic classifier, router, conversation
\* history) of src/agent.py and the input loop of src/main.py.
\*
\* Python str values are TLA+ strings (Len, SubSeq and \o apply to them); Python
\* dicts are records; Python lists are sequences; Python None is the value None.
EXTENDS Integers, Sequences, FiniteSets, TLC

VARIABLES
    tools,                  \* Agent.tools: the names registered (agent.py:10)
    conversation_history,   \* Agent.conversation_history (agent.py:11)
    pc,                     \* where the current turn / call stands
    op,                     \* the operation in progress ("" when none)
    user_input,             \* main(): the line read from the prompt
    intent_data,            \* the record handed to route_and_execute
    call,                   \* the handler call in flight: tool name and keyword args
    outcome,                \* how the handler call ended
    result,                 \* how the operation in progress ended
    voice_mode,             \* main.py:63: the module-level voice_mode flag
    spoken,                 \* whether the response of this turn was spoken aloud
    appended,               \* history: every entry appended since the last clear
    before,                 \* history: conversation_history when the operation began
    persistence_file,       \* config.PERSISTENCE_FILE (config.py:12)
    files,                  \* the files of the working directory, by path
    puts                    \* the PersistTool.execute calls of concurrent processes

vars == <<tools, conversation_history, pc, op, user_input, intent_data, call, outcome,
          result, voice_mode, spoken, appended, before, persistence_file, files, puts>>

\* the persistent store and the processes that write it
store == <<persistence_file, files, puts>>

-----------------------------------------------------------------------------
\* Python values

None == [py |-> "None"]

\* s[i-1:i], the i-th character of a str
Char(s, i) == SubSeq(s, i, i)

\* How a call ends: it returns a value (type is the Python type of the value), or
\* an exception (its class and str(e)) travels up to the caller.
Return(type, v) == [kind |-> "return", type |-> type, value |-> v]

Raise(cls, msg) == [kind |-> "raise", cls |-> cls, msg |-> msg]

\* no call has ended yet
Pending == [kind |-> "pending"]

Digits == "0123456789"

RECURSIVE Str(_)
\* str(n) for n >= 0
Str(n) ==
    IF n < 10 THEN Char(Digits, n + 1)
    ELSE Str(n \div 10) \o Char(Digits, (n % 10) + 1)

Min(a, b) == IF a < b THEN a ELSE b

Max(a, b) == IF a > b THEN a ELSE b

-----------------------------------------------------------------------------
\* Python str operations, as the classifier uses them

UpperChars == "ABCDEFGHIJKLMNOPQRSTUVWXYZ"

LowerChars == "abcdefghijklmnopqrstuvwxyz"

\* str.lower() on one character (ASCII letters; every other character is kept)
LowerChar(c) ==
    IF \E i \in 1..Len(UpperChars) : Char(UpperChars, i) = c
    THEN Char(LowerChars, CHOOSE i \in 1..Len(UpperChars) : Char(UpperChars, i) = c)
    ELSE c

RECURSIVE Lower(_)
\* str.lower()
Lower(s) ==
    IF s = "" THEN "" ELSE LowerChar(Char(s, 1)) \o Lower(SubSeq(s, 2, Len(s)))

\* the characters str.strip() removes
IsSpace(c) == c = " " \/ c = "\t" \/ c = "\n" \/ c = "\r"

\* str.strip()
Strip(s) ==
    LET keep == {i \in 1..Len(s) : ~IsSpace(Char(s, i))}
    IN  IF keep = {} THEN ""
        ELSE SubSeq(s, CHOOSE i \in keep : \A j \in keep : i <= j,
                       CHOOSE i \in keep : \A j \in keep : i >= j)

\* whether sub occurs in s at position i (1-based)
MatchAt(s, sub, i) ==
    /\ i >= 1
    /\ i + Len(sub) - 1 <= Len(s)
    /\ SubSeq(s, i, i + Len(sub) - 1) = sub

\* str.find(sub), 1-based; 0 when sub does not occur (Python's -1)
Find(s, sub) ==
    LET hits == {i \in 1..(Len(s) + 1) : MatchAt(s, sub, i)}
    IN  IF hits = {} THEN 0 ELSE CHOOSE i \in hits : \A j \in hits : i <= j

\* sub in s
Contains(s, sub) == Find(s, sub) # 0

\* any(k in s for k in keywords)
ContainsAny(s, keywords) == \E i \in 1..Len(keywords) : Contains(s, keywords[i])

\* s.startswith(prefix)
StartsWith(s, prefix) == MatchAt(s, prefix, 1)

\* s[n:]
From(s, n) == SubSeq(s, n + 1, Len(s))

\* s.split(sep, 1): one part when sep does not occur, else the two parts around
\* its first occurrence
Split1(s, sep) ==
    LET i == Find(s, sep)
    IN  IF i = 0 THEN <<s>>
        ELSE <<SubSeq(s, 1, i - 1), SubSeq(s, i + Len(sep), Len(s))>>

RECURSIVE Remove(_, _)
\* s.replace(old, ""): every non-overlapping occurrence, left to right
Remove(s, old) ==
    IF s = "" THEN ""
    ELSE IF MatchAt(s, old, 1) THEN Remove(From(s, Len(old)), old)
    ELSE Char(s, 1) \o Remove(From(s, 1), old)

RECURSIVE RemoveAll(_, _)
\* s.replace(w1, "").replace(w2, "")... for the words of a list, in order
RemoveAll(s, words) ==
    IF words = <<>> THEN s ELSE RemoveAll(Remove(s, Head(words)), Tail(words))

-----------------------------------------------------------------------------
\* Agent.parse_intent (agent.py:30-172), the deterministic classifier

QuizKeywords ==
    <<"quiz", "start quiz", "take quiz", "quiz me", "make a quiz", "create quiz",
      "generate quiz">>

\* agent.py:72 without "anki"
FlashcardKeywords_without_anki == <<"flashcards", "flashcard", "study cards">>

\* agent.py:72: the keywords of the first flashcards branch
FlashcardKeywords == <<"flashcards", "flashcard", "anki", "study cards">>

\* agent.py:112: the keywords of the second flashcards branch
FlashcardKeywords2 == <<"flashcards", "flashcard", "anki", "study cards">>

\* agent.py:76 testing for "list" only
ListCommands_list_only == <<"list">>

ListCommands == <<"list", "show", "display">>

MathKeywords == <<"solve", "calculate", "compute", "math">>

SearchKeywords == <<"search", "look up", "find", "google">>

FilesKeywords == <<"read", "open", "view", "show file">>

VizKeywords ==
    <<"visualize", "visualization", "diagram", "draw", "chart", "graph", "flowchart",
      "show me", "make a diagram", "make a chart", "make a graph", "make a flowchart",
      "viz", "viz tool", "create diagram", "create chart", "create graph",
      "create flowchart">>

VizPrefixes ==
    <<"visualize ", "visualization of ", "visualization ", "make a visualization of ",
      "make a diagram of ", "make a diagram ", "diagram of ", "draw ", "chart of ",
      "graph of ", "flowchart of ", "show me ", "make a chart ", "make a graph ",
      "make a flowchart ", "viz ", "viz tool ", "create diagram ", "create chart ",
      "create graph ", "create flowchart ">>

TtsKeywords == <<"speak", "say", "tts", "read aloud", "text to speech", "voice">>

TtsPrefixes == <<"speak ", "say ", "tts ", "read aloud ", "text to speech ", "voice ">>

QuestionPrefixes ==
    <<"explain", "what is", "what are", "who is", "who are", "how does", "how do", "why">>

\* user_input.split(sep, 1)[1] without the strip()
AfterSeparator_unstripped(text, sep) ==
    LET parts == Split1(text, sep)
    IN  IF Len(parts) < 2 THEN Raise("IndexError", "list index out of range")
        ELSE Return("str", parts[2])

\* user_input.split(sep, 1)[1].strip(): IndexError when sep is not in user_input
AfterSeparator(text, sep) ==
    LET parts == Split1(text, sep)
    IN  IF Len(parts) < 2 THEN Raise("IndexError", "list index out of range")
        ELSE Return("str", Strip(parts[2]))

\* for prefix in prefixes: if lower.startswith(prefix): <take text[len(prefix):]>; break
\* the first prefix of the list that lower starts with, <<>> when there is none
FirstPrefix(lower, prefixes) ==
    LET hits == {i \in 1..Len(prefixes) : StartsWith(lower, prefixes[i])}
    IN  IF hits = {} THEN <<>>
        ELSE <<prefixes[CHOOSE i \in hits : \A j \in hits : i <= j]>>

\* for keyword in keywords: if keyword in lower: ...; break
FirstContained(lower, keywords) ==
    LET hits == {i \in 1..Len(keywords) : Contains(lower, keywords[i])}
    IN  IF hits = {} THEN <<>>
        ELSE <<keywords[CHOOSE i \in hits : \A j \in hits : i <= j]>>

\* agent.py:40-69: the topic of a quiz request
QuizTopic(text, lower) ==
    IF Contains(lower, "on ") THEN AfterSeparator(text, "on ")
    ELSE IF Contains(lower, "about ") THEN AfterSeparator(text, "about ")
    ELSE IF \/ Contains(lower, "make a quiz")
            \/ Contains(lower, "create quiz")
            \/ Contains(lower, "generate quiz")
    THEN LET p == FirstPrefix(lower, <<"make a quiz ", "create quiz ", "generate quiz ">>)
         IN  IF p = <<>> THEN Return("str", "") ELSE Return("str", Strip(From(text, Len(p[1]))))
    ELSE IF Contains(lower, "quiz me")
    THEN IF Contains(lower, "on ") THEN AfterSeparator(text, "on ")
         ELSE Return("str", Strip(Remove(lower, "quiz me")))
    ELSE IF Contains(lower, "take quiz")
    THEN IF Contains(lower, "on ") THEN AfterSeparator(text, "on ")
         ELSE Return("str", Strip(Remove(lower, "take quiz")))
    ELSE IF Contains(lower, "start quiz")
    THEN Return("str", Strip(Remove(lower, "start quiz")))
    ELSE Return("str", Strip(RemoveAll(lower,
            <<"quiz", "start", "take", "me", "make a", "create", "generate">>)))

\* agent.py:80-100: the topic of a flashcards request (first flashcards branch)
FlashcardTopic(text, lower) ==
    LET padded == " " \o lower \o " "
    IN  IF Contains(padded, " for ") THEN AfterSeparator(text, " for ")
        ELSE IF Contains(padded, " about ") THEN AfterSeparator(text, " about ")
        ELSE IF Contains(padded, " on ") THEN AfterSeparator(text, " on ")
        ELSE IF ContainsAny(lower, <<"create ", "make ", "generate ">>)
        THEN LET p == FirstPrefix(lower, <<"create ", "make ", "generate ">>)
             IN  IF p = <<>> THEN Return("str", "")
                 ELSE Return("str", Strip(RemoveAll(Strip(From(text, Len(p[1]))),
                        <<"flashcards", "flashcard", "anki", "study cards", "cards">>)))
        ELSE Return("str", Strip(RemoveAll(lower,
                <<"flashcards", "flashcard", "anki", "study cards", "cards", "create",
                  "make", "generate">>)))

\* agent.py:120-140: the topic of a flashcards request (second flashcards branch)
FlashcardTopic2(text, lower) ==
    IF Contains(lower, "for ") THEN AfterSeparator(text, "for ")
    ELSE IF Contains(lower, "about ") THEN AfterSeparator(text, "about ")
    ELSE IF Contains(lower, "on ") THEN AfterSeparator(text, "on ")
    ELSE IF ContainsAny(lower, <<"create ", "make ", "generate ">>)
    THEN LET p == FirstPrefix(lower, <<"create ", "make ", "generate ">>)
         IN  IF p = <<>> THEN Return("str", "")
             ELSE Return("str", Strip(RemoveAll(Strip(From(text, Len(p[1]))),
                    <<"flashcards", "flashcard", "anki", "study cards">>)))
    ELSE Return("str", Strip(RemoveAll(lower,
            <<"flashcards", "flashcard", "anki", "study cards", "create", "make",
              "generate">>)))

\* the record a branch returns once its topic is extracted; the IndexError of the
\* extraction travels on to parse_intent's caller (parse_intent has no try)
WithTopic(topic, rec(_)) ==
    IF topic.kind = "raise" THEN topic ELSE Return("dict", rec(topic.value))

QuizRecord(topic) ==
    [intent |-> "quiz", args |-> [topic |-> topic, level |-> "medium", count |-> 5]]

FlashcardsRecord(topic) ==
    [intent |-> "flashcards", args |-> [action |-> "generate", topic |-> topic]]

FlashcardsList == [intent |-> "flashcards", args |-> [action |-> "list", deck |-> None]]

\* agent.py:145-153
VizRecord(text, lower) ==
    LET k == FirstContained(lower, VizPrefixes)
        content == IF k = <<>> THEN text
                   ELSE Strip(From(text, Find(lower, k[1]) - 1 + Len(k[1])))
    IN  [intent |-> "viz", args |-> [content |-> content, kind |-> "mermaid"]]

\* agent.py:156-163
TtsRecord(text, lower) ==
    LET p == FirstPrefix(lower, TtsPrefixes)
        spoken_text == IF p = <<>> THEN text ELSE Strip(From(text, Len(p[1])))
    IN  [intent |-> "tts", args |-> [text |-> spoken_text, provider |-> "local"]]

\* agent.py:168/172 with the lower-cased, stripped text as the message
ChatRecord_normalised(text) == [intent |-> "chat", args |-> [message |-> Strip(Lower(text))]]

ChatRecord(text) == [intent |-> "chat", args |-> [message |-> text]]

\* Agent.parse_intent(user_input): Return(record), or the exception it raises
parse_intent(text) ==
    LET lower == Strip(Lower(text))
    IN  IF ContainsAny(lower, QuizKeywords)
        THEN WithTopic(QuizTopic(text, lower), QuizRecord)
        ELSE IF ContainsAny(lower, FlashcardKeywords)
        THEN IF ContainsAny(lower, ListCommands) THEN Return("dict", FlashcardsList)
             ELSE WithTopic(FlashcardTopic(text, lower), FlashcardsRecord)
        ELSE IF ContainsAny(lower, MathKeywords)
        THEN Return("dict", [intent |-> "math", args |->
                [expression |-> Strip(RemoveAll(lower, MathKeywords))]])
        ELSE IF ContainsAny(lower, SearchKeywords)
        THEN Return("dict", [intent |-> "search", args |->
                [query |-> Strip(RemoveAll(lower, SearchKeywords))]])
        ELSE IF ContainsAny(lower, FilesKeywords)
        THEN Return("dict", [intent |-> "files", args |->
                [path |-> Strip(RemoveAll(lower, FilesKeywords))]])
        ELSE IF ContainsAny(lower, FlashcardKeywords2)
        THEN IF ContainsAny(lower, ListCommands) THEN Return("dict", FlashcardsList)
             ELSE WithTopic(FlashcardTopic2(text, lower), FlashcardsRecord)
        ELSE IF ContainsAny(lower, VizKeywords) THEN Return("dict", VizRecord(text, lower))
        ELSE IF ContainsAny(lower, TtsKeywords) THEN Return("dict", TtsRecord(text, lower))
        ELSE IF \E i \in 1..Len(QuestionPrefixes) : StartsWith(lower, QuestionPrefixes[i])
        THEN Return("dict", ChatRecord(text))
        ELSE Return("dict", ChatRecord(text))

\* parse_intent with the elif of agent.py:112-142 taken out
parse_intent_without_second_branch(text) ==
    LET lower == Strip(Lower(text))
    IN  IF ContainsAny(lower, QuizKeywords)
        THEN WithTopic(QuizTopic(text, lower), QuizRecord)
        ELSE IF ContainsAny(lower, FlashcardKeywords)
        THEN IF ContainsAny(lower, ListCommands) THEN Return("dict", FlashcardsList)
             ELSE WithTopic(FlashcardTopic(text, lower), FlashcardsRecord)
        ELSE IF ContainsAny(lower, MathKeywords)
        THEN Return("dict", [intent |-> "math", args |->
                [expression |-> Strip(RemoveAll(lower, MathKeywords))]])
        ELSE IF ContainsAny(lower, SearchKeywords)
        THEN Return("dict", [intent |-> "search", args |->
                [query |-> Strip(RemoveAll(lower, SearchKeywords))]])
        ELSE IF ContainsAny(lower, FilesKeywords)
        THEN Return("dict", [intent |-> "files", args |->
                [path |-> Strip(RemoveAll(lower, FilesKeywords))]])
        ELSE IF ContainsAny(lower, VizKeywords) THEN Return("dict", VizRecord(text, lower))
        ELSE IF ContainsAny(lower, TtsKeywords) THEN Return("dict", TtsRecord(text, lower))
        ELSE IF \E i \in 1..Len(QuestionPrefixes) : StartsWith(lower, QuestionPrefixes[i])
        THEN Return("dict", ChatRecord(text))
        ELSE Return("dict", ChatRecord(text))

-----------------------------------------------------------------------------
\* Bounds of the model

\* chat exchanges recorded between two clears of the history, per run
MaxExchanges == 22

\* failed model calls among the exchanges recorded since the last clear
MaxModelFailures == 1

\* the largest n a caller passes to get_conversation_context
MaxContext == 12

\* chat exchanges recorded in one run of the input loop
MaxLoopExchanges == 2

\* new topics a caller adds to the important topics
MaxTopics == 22

-----------------------------------------------------------------------------
\* The registry (agent.py:14-28) and the handlers' signatures

\* agent.py:14-24 without the registration of TTSTool
register_tools_without_tts ==
    {"quiz", "math", "viz", "search", "files", "flashcards", "persist", "chat",
     "context_manager"}

\* Agent.register_tools: the name each registered tool gives itself
RegisteredTools ==
    {"quiz", "math", "viz", "search", "files", "flashcards", "persist", "chat", "tts",
     "context_manager"}

\* the keyword parameters of each tool's execute, and those without a default
Signature(tool) ==
    CASE tool = "quiz" ->
            [params |-> {"topic", "level", "count"}, required |-> {"topic"}, kwargs |-> FALSE]
      [] tool = "math" ->
            [params |-> {"expression"}, required |-> {"expression"}, kwargs |-> FALSE]
      [] tool = "viz" ->
            [params |-> {"kind", "content"}, required |-> {"kind", "content"}, kwargs |-> FALSE]
      [] tool = "search" ->
            [params |-> {"query"}, required |-> {"query"}, kwargs |-> FALSE]
      [] tool = "files" ->
            [params |-> {"path"}, required |-> {"path"}, kwargs |-> FALSE]
      [] tool = "flashcards" ->
            [params |-> {}, required |-> {}, kwargs |-> TRUE]
      [] tool = "persist" ->
            [params |-> {"key", "value"}, required |-> {"key", "value"}, kwargs |-> FALSE]
      [] tool = "chat" ->
            [params |-> {"message", "conversation_context", "use_enhanced_context"},
             required |-> {"message"}, kwargs |-> FALSE]
      [] tool = "tts" ->
            [params |-> {"text", "voice", "speed", "volume", "save_to_file", "filename",
                         "format"},
             required |-> {"text"}, kwargs |-> FALSE]
      [] tool = "context_manager" ->
            [params |-> {"action", "key", "value", "topic", "context_length"},
             required |-> {"action"}, kwargs |-> FALSE]

\* Python's binding of execute(**args): a TypeError when a keyword is not a
\* parameter or a parameter without default is not given
Bind(tool, args) ==
    LET sig == Signature(tool)
    IN  IF ~sig.kwargs /\ ~(DOMAIN args \subseteq sig.params)
        THEN Raise("TypeError", "execute() got an unexpected keyword argument")
        ELSE IF ~(sig.required \subseteq DOMAIN args)
        THEN Raise("TypeError", "execute() missing 1 required positional argument")
        ELSE Pending

\* What the world outside the process does to a handler call: the external
\* services answer ("ok"), a package is not installed ("missing_dependency"), the
\* external call fails ("call_error"), or a statement outside every try block of
\* the handler fails ("crash").
Environments(tool) ==
    CASE tool = "chat" -> {"ok", "missing_dependency", "call_error", "crash"}
      [] tool \in {"files", "flashcards", "persist", "context_manager"} -> {"ok", "crash"}
      [] OTHER -> {"ok", "call_error"}

\* the answer of the external model to a chat message
ChatReply(message) == "re: " \o message

OllamaMissing == "Ollama is not installed. Please install it to use chat features."

\* ChatTool.execute, bound (chat.py:19-72): a failure of the model call is caught
\* in the handler and comes back as its return value
ChatTool_execute(args, env) ==
    CASE env = "crash" -> Raise("Exception", "context unavailable")
      [] env = "missing_dependency" -> Return("str", OllamaMissing)
      [] env = "call_error" ->
            Return("str", "Sorry, I encountered an error: " \o "connection refused")
      [] env = "ok" -> Return("str", ChatReply(args.message))

\* whether a chat response reports a failed model call (chat.py:69-72)
IsModelFailure(response) ==
    \/ response = OllamaMissing
    \/ StartsWith(response, "Sorry, I encountered an error: ")

\* tools[tool].execute(**args) under env
Execute(tool, args, env) ==
    LET bound == Bind(tool, args)
    IN  IF bound.kind = "raise" THEN bound
        ELSE IF tool = "chat" THEN ChatTool_execute(args, env)
        ELSE IF tool = "files"
        THEN IF env = "crash" THEN Raise("PermissionError", "Permission denied")
             ELSE Return("dict", [error |-> "File not found"])
        ELSE IF env = "crash" THEN Raise("OSError", "cannot write")
        ELSE IF env = "call_error" THEN Return("str", tool \o " failed")
        ELSE Return("str", tool \o " output")

-----------------------------------------------------------------------------
\* Conversation state (agent.py:201-233)

\* agent.py:215: the cap on the history
MaxHistory == 40

\* agent.py:222: get_enhanced_chat_context's default max_messages
ContextLength == 10

\* list[start:] with Python's treatment of negative and out-of-range starts
PySliceFrom(list, start) ==
    LET first == IF start < 0 THEN Max(Len(list) + start, 0) ELSE Min(start, Len(list))
    IN  SubSeq(list, first + 1, Len(list))

Turn(role, content) == [role |-> role, content |-> content]

\* agent.py:215 keeping the oldest entries instead of the newest
add_to_conversation_history_keep_oldest(history, user_message, bot_response) ==
    LET grown == history \o <<Turn("user", user_message), Turn("assistant", bot_response)>>
    IN  IF Len(grown) > MaxHistory THEN SubSeq(grown, 1, MaxHistory) ELSE grown

\* agent.py:215 keeping the last 39 entries
add_to_conversation_history_odd_cap(history, user_message, bot_response) ==
    LET grown == history \o <<Turn("user", user_message), Turn("assistant", bot_response)>>
    IN  IF Len(grown) > MaxHistory THEN PySliceFrom(grown, -(MaxHistory - 1)) ELSE grown

\* Agent._add_to_conversation_history (agent.py:201-215): the history after it
add_to_conversation_history(history, user_message, bot_response) ==
    LET grown == history \o <<Turn("user", user_message), Turn("assistant", bot_response)>>
    IN  IF Len(grown) > MaxHistory THEN PySliceFrom(grown, -MaxHistory) ELSE grown

\* agent.py:220 returning the history without slicing it
get_conversation_context_unsliced(history, max_messages) == history

\* Agent.get_conversation_context (agent.py:217-220)
get_conversation_context(history, max_messages) ==
    IF Len(history) > 0 THEN PySliceFrom(history, -max_messages) ELSE <<>>

\* agent.py:233 leaving the last exchange in place
clear_conversation_history_keep_last(history) == PySliceFrom(history, -2)

\* Agent.clear_conversation_history (agent.py:231-233): the history after it
clear_conversation_history(history) == <<>>

\* Agent.get_enhanced_chat_context (agent.py:222-229), the part the router reads
get_enhanced_chat_context(history) ==
    [conversation_history |-> get_conversation_context(history, ContextLength)]

-----------------------------------------------------------------------------
\* Agent.route_and_execute (agent.py:174-199), step by step

\* args.get(key, default)
Get(args, key, default) == IF key \in DOMAIN args THEN args[key] ELSE default

\* agent.py:186-190: {**args, 'conversation_context': ..., 'use_enhanced_context': True}
ChatArgs(args, history) ==
    [k \in DOMAIN args \cup {"conversation_context", "use_enhanced_context"} |->
        IF k = "conversation_context"
        THEN get_enhanced_chat_context(history).conversation_history
        ELSE IF k = "use_enhanced_context" THEN TRUE
        ELSE args[k]]

\* agent.py:184 without the test for the chat intent
RecordsTurn_every_intent(intent) == TRUE

\* agent.py:184: the intents whose turn is recorded in the history
RecordsTurn(intent) == intent = "chat"

\* agent.py:182 failing: the try block falls through and the function ends
\* without a return statement
UnknownToolResult(intent) == Return("NoneType", None)

\* agent.py:197-199 letting the exception through
OnHandlerException_reraise(e) == e

\* agent.py:197-199: what the router returns when a handler raised
OnHandlerException(e) == Return("str", "Error: " \o e.msg)

NoCall == [tool |-> "", args |-> <<>>]

NoIntent == [intent |-> "", args |-> <<>>]

\* agent.py:182-194: look the handler up and call it
Dispatch ==
    /\ pc = "Dispatching"
    /\ LET intent == intent_data.intent
           args == intent_data.args
       IN  IF intent \notin tools
           THEN /\ result' = UnknownToolResult(intent)
                /\ pc' = "Returned"
                /\ call' = call
           ELSE /\ call' = [tool |-> intent,
                            args |-> IF intent = "chat"
                                     THEN ChatArgs(args, conversation_history)
                                     ELSE args]
                /\ pc' = "Executing"
                /\ result' = result
    /\ UNCHANGED <<tools, conversation_history, op, user_input, intent_data, outcome,
                   voice_mode, spoken, appended, before>>
    /\ UNCHANGED store

\* the failed model calls among the responses recorded since the last clear
ModelFailures ==
    Cardinality({i \in 1..Len(appended) :
        appended[i].role = "assistant" /\ IsModelFailure(appended[i].content)})

\* agent.py:191/194 and 196-199: the handler runs; what it raises is caught
HandlerRuns(env) ==
    /\ pc = "Executing"
    /\ env \in Environments(call.tool)
    /\ (call.tool = "chat" /\ env \in {"missing_dependency", "call_error"})
            => ModelFailures < MaxModelFailures
    /\ LET o == Execute(call.tool, call.args, env)
       IN  /\ outcome' = o
           /\ IF o.kind = "raise"
              THEN result' = OnHandlerException(o) /\ pc' = "Returned"
              ELSE IF RecordsTurn(intent_data.intent)
              THEN result' = result /\ pc' = "UpdatingHistory"
              ELSE result' = o /\ pc' = "Returned"
    /\ UNCHANGED <<tools, conversation_history, op, user_input, intent_data, call,
                   voice_mode, spoken, appended, before>>
    /\ UNCHANGED store

\* agent.py:192 and 196: the chat turn is recorded, then the response returned
UpdateHistory ==
    /\ pc = "UpdatingHistory"
    /\ LET user_message == Get(intent_data.args, "message", "")
       IN  /\ conversation_history' =
                add_to_conversation_history(conversation_history, user_message,
                                            outcome.value)
           /\ appended' = appended \o <<Turn("user", user_message),
                                        Turn("assistant", outcome.value)>>
    /\ result' = outcome
    /\ pc' = "Returned"
    /\ UNCHANGED <<tools, op, user_input, intent_data, call, outcome, voice_mode,
                   spoken, before>>
    /\ UNCHANGED store

-----------------------------------------------------------------------------
\* Persistence (config.py, tools/persist.py, tools/context_manager.py)

\* config.py:12: PERSISTENCE_FILE when the environment does not set it; the
\* path context_manager.py:130-131 reads
DefaultPath == "studbotty_data.json"

\* the values PERSISTENCE_FILE takes: the default, and a path set in the environment
Paths == {"studbotty_data.json", "study_data.json"}

\* What a path holds: nothing, a complete JSON text (the dict it encodes), or an
\* incomplete one: the file was opened for writing and so truncated, or two
\* writers wrote over each other.
Absent == [kind |-> "absent"]

Partial == [kind |-> "partial"]

NoFiles == [path \in Paths |-> Absent]

\* json.dump(data, f, indent=2) run to its end: a JSON object carries a dict with
\* str keys and str, list or dict values as it is
json_dump(data) == [kind |-> "json", data |-> data]

\* json.load(f) without a readable JSON text
json_load_failing(content) == Raise("JSONDecodeError", "Expecting value")

\* json.load(f): the dict, or the error for a file without a complete JSON text
json_load(content) ==
    IF content.kind = "json" THEN Return("dict", content.data)
    ELSE Raise("JSONDecodeError", "Expecting value")

\* os.path.exists(path)
exists(fs, path) == fs[path].kind # "absent"

\* the empty dict
EmptyDict == <<>>

\* d[k] = v
SetItem(d, k, v) == [x \in DOMAIN d \cup {k} |-> IF x = k THEN v ELSE d[x]]

\* persist.py:23-29: data = {}; the file's dict when it exists and can be read
LoadedData(fs, path) ==
    IF ~exists(fs, path) THEN EmptyDict
    ELSE LET loaded == json_load(fs[path])
         IN  IF loaded.kind = "return" THEN loaded.value ELSE EmptyDict

\* PersistTool.execute(key, value) run by one process alone: the files afterwards
PersistTool_execute(fs, path, key, value) ==
    [fs EXCEPT ![path] = json_dump(SetItem(LoadedData(fs, path), key, value))]

\* {"ok": True}
Ok == [ok |-> TRUE]

\* self._get_data(key) or default (context_manager.py:126-136): the value under
\* key in the file named studbotty_data.json; default when the file, a readable
\* text or the key is missing. (A stored value is a non-empty dict or list here,
\* so `or` changes nothing else.)
get_data(fs, key, default) ==
    IF ~exists(fs, DefaultPath) THEN default
    ELSE LET loaded == json_load(fs[DefaultPath])
         IN  IF loaded.kind = "return" /\ key \in DOMAIN loaded.value
             THEN loaded.value[key]
             ELSE default

\* ContextManagerTool._set_user_profile(key, value) at time now: the files afterwards
_set_user_profile(fs, path, key, value, now) ==
    LET profile == get_data(fs, "user_profile", EmptyDict)
    IN  PersistTool_execute(fs, path, "user_profile",
            SetItem(SetItem(profile, key, value), "updated_at", now))

\* ContextManagerTool._get_user_profile(key); key = "" stands for None as well,
\* `if key:` treats both alike
_get_user_profile(fs, key) ==
    LET profile == get_data(fs, "user_profile", EmptyDict)
    IN  IF key # ""
        THEN IF key \in DOMAIN profile THEN Return("str", profile[key])
             ELSE Return("NoneType", None)
        ELSE Return("dict", profile)

\* context_manager.py:86: the topics kept
KeptTopics == 20

\* context_manager.py:86: topics[-20:]
KeepTopics(topics) == PySliceFrom(topics, -KeptTopics)

\* ContextManagerTool._add_important_topic(topic): what it returns and the files
\* afterwards
_add_important_topic(fs, path, topic) ==
    IF topic = ""
    THEN [result |-> Return("dict", [error |-> "Topic cannot be empty"]), fs |-> fs]
    ELSE LET topics == get_data(fs, "important_topics", <<>>)
             known == \E i \in 1..Len(topics) : Lower(topics[i]) = Lower(topic)
             kept == IF known THEN topics ELSE KeepTopics(Append(topics, topic))
         IN  [result |-> Return("dict", Ok),
              fs |-> PersistTool_execute(fs, path, "important_topics", kept)]

\* ContextManagerTool._get_important_topics()
_get_important_topics(fs) == get_data(fs, "important_topics", <<>>)

\* user_input.split(':', 2)
SplitColon2(s) ==
    LET first == Split1(s, ":")
    IN  IF Len(first) = 1 THEN first ELSE <<first[1]>> \o Split1(first[2], ":")

\* _handle_profile_command(user_input) (main.py:218-268): the call it makes on the
\* context manager, or the usage message it prints, or nothing
_handle_profile_command(line) ==
    LET parts == SplitColon2(line)
    IN  IF Len(parts) < 3 THEN [does |-> "usage"]
        ELSE LET action == Strip(parts[2])
             IN  IF action = "set"
                 THEN LET key_value == Split1(parts[3], " ")
                      IN  IF Len(key_value) = 2
                          THEN [does |-> "set_profile", key |-> Strip(key_value[1]),
                                value |-> Strip(key_value[2])]
                          ELSE [does |-> "usage"]
                 ELSE IF action = "get"
                 THEN [does |-> "get_profile", key |-> Strip(parts[3])]
                 ELSE IF action = "show"
                 THEN [does |-> "get_profile", key |-> ""]
                 ELSE [does |-> "nothing"]

\* no PersistTool.execute call of another process is under way
NoPuts == <<>>

-----------------------------------------------------------------------------
\* The Agent under a caller that uses its public methods one call at a time

\* the k-th message a caller sends between two clears
Msg(k) == "hi " \o Str(k)

\* The intent records a caller hands to route_and_execute: the next chat message,
\* a chat record without message, records for registered tools, and a record
\* naming SummaryTool, which tools/summary.py defines and register_tools leaves out.
IntentRecords ==
    {ChatRecord(Msg((Len(appended) \div 2) + 1)),
     [intent |-> "chat", args |-> <<>>],
     [intent |-> "math", args |-> [expression |-> "2 + 2"]],
     [intent |-> "files", args |-> [path |-> "notes.txt"]],
     [intent |-> "tts", args |-> [text |-> "hello", provider |-> "local"]],
     [intent |-> "summary", args |-> [content |-> "notes"]]}

Init ==
    /\ tools = RegisteredTools
    /\ conversation_history = <<>>
    /\ pc = "Idle"
    /\ op = ""
    /\ user_input = ""
    /\ intent_data = NoIntent
    /\ call = NoCall
    /\ outcome = Pending
    /\ result = Pending
    /\ voice_mode = FALSE
    /\ spoken = FALSE
    /\ appended = <<>>
    /\ before = <<>>
    /\ persistence_file = DefaultPath
    /\ files = NoFiles
    /\ puts = NoPuts

\* a caller calls route_and_execute(record)
RouteCall(record) ==
    /\ pc = "Idle"
    /\ record.intent = "chat" => Len(appended) < 2 * MaxExchanges
    /\ op' = "route_and_execute"
    /\ intent_data' = record
    /\ before' = conversation_history
    /\ pc' = "Dispatching"
    /\ UNCHANGED <<tools, conversation_history, user_input, call, outcome, result,
                   voice_mode, spoken, appended>>
    /\ UNCHANGED store

\* a caller calls clear_conversation_history()
ClearCall ==
    /\ pc = "Idle"
    /\ op' = "clear_conversation_history"
    /\ before' = conversation_history
    /\ conversation_history' = clear_conversation_history(conversation_history)
    /\ appended' = <<>>
    /\ result' = Return("NoneType", None)
    /\ pc' = "Returned"
    /\ UNCHANGED <<tools, user_input, intent_data, call, outcome, voice_mode, spoken>>
    /\ UNCHANGED store

\* a caller calls get_conversation_context(n)
GetContextCall(n) ==
    /\ pc = "Idle"
    /\ op' = "get_conversation_context"
    /\ before' = conversation_history
    /\ call' = [tool |-> "", args |-> [max_messages |-> n]]
    /\ result' = Return("list", get_conversation_context(conversation_history, n))
    /\ pc' = "Returned"
    /\ UNCHANGED <<tools, conversation_history, user_input, intent_data, outcome,
                   voice_mode, spoken, appended>>
    /\ UNCHANGED store

\* the call is over; the caller has its result
ReturnToCaller ==
    /\ pc = "Returned"
    /\ pc' = "Idle"
    /\ op' = ""
    /\ intent_data' = NoIntent
    /\ call' = NoCall
    /\ outcome' = Pending
    /\ result' = Pending
    /\ before' = <<>>
    /\ UNCHANGED <<tools, conversation_history, user_input, voice_mode, spoken, appended>>
    /\ UNCHANGED store

Next ==
    \/ \E record \in IntentRecords : RouteCall(record)
    \/ Dispatch
    \/ \E env \in {"ok", "missing_dependency", "call_error", "crash"} : HandlerRuns(env)
    \/ UpdateHistory
    \/ ClearCall
    \/ \E n \in 0..MaxContext : GetContextCall(n)
    \/ ReturnToCaller

Spec == Init /\ [][Next]_vars

-----------------------------------------------------------------------------
\* main() (main.py:328-442): the input loop around one Agent

QuitCommands == {":quit", ":exit", "quit", "exit"}

VoiceCommands ==
    {"/voicemode", "enable voice mode", "disable voice mode", "voice mode on",
     "voice mode off"}

\* main.py:388-396 with every voice command toggling the mode
VoiceModeAfter_toggle(low, mode) == ~mode

\* main.py:388-396: voice_mode after a voice command
VoiceModeAfter(low, mode) ==
    IF low \in {"enable voice mode", "voice mode on"} THEN TRUE
    ELSE IF low \in {"disable voice mode", "voice mode off"} THEN FALSE
    ELSE ~mode

\* main.py:363-385 without the test for :topics
IsReplCommand_without_topics(low) ==
    \/ low = ":help"
    \/ low = ":tools"
    \/ StartsWith(low, ":profile")
    \/ StartsWith(low, ":preferences")

\* main.py:363-385: the commands answered without the agent's classifier; what
\* they print is outside the state modelled here, and they write nothing
\* (_handle_profile_command, _handle_preferences_command)
IsReplCommand(low) ==
    \/ low = ":help"
    \/ low = ":tools"
    \/ StartsWith(low, ":profile")
    \/ StartsWith(low, ":topics")
    \/ StartsWith(low, ":preferences")

\* the lines typed at the prompt
Lines ==
    {"", "  ", "quit", ":EXIT", ":help", ":tools", ":profile show", ":topics",
     ":preferences", "enable voice mode", "Voice Mode Off", "/voicemode",
     "tell me a story", "why", "quiz me on world war 2", "Quiz ON x",
     "flashcards for", "list flashcards", "solve 2 + 2", "read notes.txt",
     "Speak hello world"}

\* agent.parse_intent(line) for each of the lines, computed once
Classification == [line \in Lines |-> parse_intent(line)]

\* the lines the classifier files under chat
ChatLines ==
    {line \in Lines :
        /\ Classification[line].kind = "return"
        /\ Classification[line].value.intent = "chat"}

\* main.py:335-402: a line is read; blank lines, quit commands, REPL commands and
\* voice commands are handled here, every other line goes on to the classifier
ReadInput(line) ==
    /\ pc = "Idle"
    /\ line \in ChatLines => Len(appended) < 2 * MaxLoopExchanges
    /\ user_input' = line
    /\ spoken' = FALSE
    /\ LET low == Lower(line)
       IN  IF Strip(line) = "" \/ IsReplCommand(low)
           THEN UNCHANGED <<pc, op, voice_mode, before>>
           ELSE IF low \in QuitCommands
           THEN pc' = "Stopped" /\ UNCHANGED <<op, voice_mode, before>>
           ELSE IF low \in VoiceCommands
           THEN /\ voice_mode' = VoiceModeAfter(low, voice_mode)
                /\ UNCHANGED <<pc, op, before>>
           ELSE /\ pc' = "Classifying"
                /\ op' = "turn"
                /\ before' = conversation_history
                /\ UNCHANGED voice_mode
    /\ UNCHANGED <<tools, conversation_history, intent_data, call, outcome, result,
                   appended>>
    /\ UNCHANGED store

\* main.py:336-351: end of input or an interrupt at the prompt
EndOfInput ==
    /\ pc = "Idle"
    /\ pc' = "Stopped"
    /\ UNCHANGED <<tools, conversation_history, op, user_input, intent_data, call,
                   outcome, result, voice_mode, spoken, appended, before>>
    /\ UNCHANGED store

\* main.py:407/411: intent_data = agent.parse_intent(user_input); what it raises
\* reaches the except clause of the loop (main.py:437)
Classify ==
    /\ pc = "Classifying"
    /\ LET parsed == Classification[user_input]
       IN  IF parsed.kind = "raise"
           THEN result' = parsed /\ pc' = "Failed" /\ UNCHANGED intent_data
           ELSE intent_data' = parsed.value /\ pc' = "Dispatching" /\ UNCHANGED result
    /\ UNCHANGED <<tools, conversation_history, op, user_input, call, outcome,
                   voice_mode, spoken, appended, before>>
    /\ UNCHANGED store

\* main.py:414-429: the response is displayed, and spoken in voice mode; the loop
\* prompts again
Display ==
    /\ pc = "Returned"
    /\ spoken' = voice_mode
    /\ pc' = "Idle"
    /\ op' = ""
    /\ intent_data' = NoIntent
    /\ call' = NoCall
    /\ outcome' = Pending
    /\ result' = Pending
    /\ before' = <<>>
    /\ UNCHANGED <<tools, conversation_history, user_input, voice_mode, appended>>
    /\ UNCHANGED store

\* main.py:437-442 ending the loop after the exception is printed
ReportError_stops ==
    /\ pc = "Failed"
    /\ pc' = "Stopped"
    /\ op' = ""
    /\ intent_data' = NoIntent
    /\ call' = NoCall
    /\ outcome' = Pending
    /\ result' = Pending
    /\ before' = <<>>
    /\ UNCHANGED <<tools, conversation_history, user_input, voice_mode, spoken, appended>>
    /\ UNCHANGED store

\* main.py:437-442: the exception is logged and printed; the loop prompts again
ReportError ==
    /\ pc = "Failed"
    /\ pc' = "Idle"
    /\ op' = ""
    /\ intent_data' = NoIntent
    /\ call' = NoCall
    /\ outcome' = Pending
    /\ result' = Pending
    /\ before' = <<>>
    /\ UNCHANGED <<tools, conversation_history, user_input, voice_mode, spoken, appended>>
    /\ UNCHANGED store

\* main.py:431-436: KeyboardInterrupt while a turn is processed ends the loop
Interrupt ==
    /\ pc \in {"Classifying", "Dispatching", "Executing", "UpdatingHistory", "Returned",
               "Failed"}
    /\ pc' = "Stopped"
    /\ UNCHANGED <<tools, conversation_history, op, user_input, intent_data, call,
                   outcome, result, voice_mode, spoken, appended, before>>
    /\ UNCHANGED store

\* the steps of a turn the loop takes by itself once a line is read
TurnStep ==
    \/ Classify
    \/ Dispatch
    \/ \E env \in {"ok", "missing_dependency", "call_error", "crash"} : HandlerRuns(env)
    \/ UpdateHistory
    \/ Display
    \/ ReportError

NextMain ==
    \/ \E line \in Lines : ReadInput(line)
    \/ EndOfInput
    \/ Classify
    \/ Dispatch
    \/ \E env \in {"ok", "missing_dependency", "call_error", "crash"} : HandlerRuns(env)
    \/ UpdateHistory
    \/ Display
    \/ ReportError
    \/ Interrupt

\* The loop is sequential: once a line is read, each statement of the turn runs
\* to its end (a handler call that never ends is outside this specification).
SpecMain == Init /\ [][NextMain]_vars /\ WF_vars(TurnStep)

-----------------------------------------------------------------------------
\* The classifier under a caller that classifies a text, may route the record it
\* got back, and may clear the history (what main() and the tests do with an Agent)

\* the topic, expression and subject texts X that the inputs are built from
Topics ==
    {"", " ", "x", " x ", "iron ", "world war 2", "linear algebra", "Organic Chemistry",
     "On Liberty", "the moon", "2 + 2", "X + 1", "math", "a graph", "to find x",
     "read books", "show"}

\* the question-like openings of an input
Openings == {QuestionPrefixes[i] : i \in 1..Len(QuestionPrefixes)}

\* inputs that name a quiz in other words, places and letter cases
QuizTexts ==
    {"quiz", "QUIZ", "Quiz ON x", "Quiz About x", "quiz about cells", "take quiz bio",
     "start quiz now", "x quiz y", "make a quiz bio", "generate quiz on", "on quiz",
     "list flashcards quiz", "solve the quiz", "what is a quiz"}

\* inputs that name flashcards
FlashcardTexts ==
    {"list flashcards", "LIST ANKI", "show my Flashcard decks for x", "anki display",
     "study cards list on math", "flashcards playlist", "solve flashcards show",
     "flashcards for", "make flashcards about cells", "anki"}

\* inputs for the other tools and for none
OtherTexts ==
    {"calculate 3 * 4", "search the web", "Look Up cats", "open notes.txt",
     "draw a cell", "Say hello", "tell me a story", " Hello there ", "hello",
     "Tell Me More", "thanks!", "quit now", "Speak hello world"}

\* quiz and flashcards inputs with more than one of the separators, or with "for"
SeparatorTexts ==
    {"quiz about life on mars", "quiz for kids", "quiz for kids about cells",
     "quiz on cells for kids", "flashcards about cells for class",
     "flashcards on cells about life", "flashcards on cells", "anki for exam on cells"}

\* the texts handed to parse_intent
Texts ==
    UNION {{"quiz me on " \o X, "make a quiz on " \o X, "create flashcards for " \o X,
            "solve " \o X, X} : X \in Topics}
    \cup {p \o " " \o X : p \in Openings, X \in Topics}
    \cup QuizTexts \cup FlashcardTexts \cup OtherTexts \cup SeparatorTexts

\* agent.parse_intent(text) for each of the texts, computed once
Parsed == [text \in Texts |-> parse_intent(text)]

\* the classifier without its second flashcards branch on each of the texts
ParsedWithoutSecondBranch == [text \in Texts |-> parse_intent_without_second_branch(text)]

\* parse_intent reading the history: a chat message is completed with the last
\* response recorded
ParseCall_with_context(text) ==
    /\ pc = "Idle"
    /\ op' = "parse_intent"
    /\ before' = conversation_history
    /\ call' = [tool |-> "", args |-> [user_input |-> text]]
    /\ result' =
            IF /\ conversation_history # <<>>
               /\ Parsed[text].kind = "return"
               /\ Parsed[text].value.intent = "chat"
            THEN Return("dict",
                    ChatRecord(conversation_history[Len(conversation_history)].content
                               \o " " \o text))
            ELSE Parsed[text]
    /\ pc' = "Returned"
    /\ UNCHANGED <<tools, conversation_history, user_input, intent_data, outcome,
                   voice_mode, spoken, appended>>
    /\ UNCHANGED store

\* a caller calls parse_intent(text); what it raises reaches the caller
ParseCall(text) ==
    /\ pc = "Idle"
    /\ op' = "parse_intent"
    /\ before' = conversation_history
    /\ call' = [tool |-> "", args |-> [user_input |-> text]]
    /\ result' = Parsed[text]
    /\ pc' = "Returned"
    /\ UNCHANGED <<tools, conversation_history, user_input, intent_data, outcome,
                   voice_mode, spoken, appended>>
    /\ UNCHANGED store

\* the caller hands the record it got back to route_and_execute (main.py:407-408);
\* it routes a chat record on a cleared history only, which keeps the histories
\* of this specification finite
RouteParsed ==
    /\ pc = "Returned"
    /\ op = "parse_intent"
    /\ result.kind = "return"
    /\ result.value.intent = "chat" => conversation_history = <<>>
    /\ op' = "route_and_execute"
    /\ intent_data' = result.value
    /\ before' = conversation_history
    /\ call' = NoCall
    /\ result' = Pending
    /\ pc' = "Dispatching"
    /\ UNCHANGED <<tools, conversation_history, user_input, outcome, voice_mode, spoken,
                   appended>>
    /\ UNCHANGED store

NextParse ==
    \/ \E text \in Texts : ParseCall(text)
    \/ RouteParsed
    \/ Dispatch
    \/ \E env \in {"ok", "missing_dependency", "call_error", "crash"} : HandlerRuns(env)
    \/ UpdateHistory
    \/ ClearCall
    \/ ReturnToCaller

SpecParse == Init /\ [][NextParse]_vars

-----------------------------------------------------------------------------
\* The context manager under one caller: profile and topic calls, and the
\* :profile command of the input loop, on the store of one working directory

\* datetime.now().isoformat() at the calls of a run
Timestamps == {"2026-01-01T09:00:00"}

ProfileKeys == {"name", "", "updated_at"}

ProfileValues == {"Bob", "Al"}

\* the :profile lines typed at the prompt
ProfileLines ==
    {":profile", ":profile show", ":profile set name Bob", ":profile get name",
     ":profile:set:name Bob", ":profile:get:name", ":profile:show:"}

\* the value stored under key in the file PersistTool writes, default without one
Stored(key, default) ==
    LET content == files[persistence_file]
    IN  IF content.kind = "json" /\ key \in DOMAIN content.data
        THEN content.data[key]
        ELSE default

StoredTopics == Stored("important_topics", <<>>)

\* the k-th new topic a caller adds, as typed and in lower case
TopicNames == [k \in 1..MaxTopics |-> "Topic " \o Str(k)]

LowerTopicNames == [k \in 1..MaxTopics |-> Lower(TopicNames[k])]

\* which of the caller's topics a stored topic is
TopicNumber(topic) ==
    CHOOSE k \in 1..MaxTopics : topic \in {TopicNames[k], LowerTopicNames[k]}

\* the topics a caller adds next: a new one, the oldest and the newest of the
\* stored ones in lower case, the empty topic
TopicInputs ==
    LET stored == StoredTopics
        last == IF stored = <<>> THEN 0 ELSE TopicNumber(stored[Len(stored)])
    IN  {TopicNames[k] : k \in {last + 1} \cap (1..MaxTopics)}
        \cup {LowerTopicNames[TopicNumber(stored[i])] :
                i \in {1, Len(stored)} \cap (1..Len(stored))}
        \cup {""}

\* every variable of the agent and the loop as Agent() and main() start them
AgentStarts ==
    /\ tools = RegisteredTools
    /\ conversation_history = <<>>
    /\ pc = "Idle"
    /\ op = ""
    /\ user_input = ""
    /\ intent_data = NoIntent
    /\ call = NoCall
    /\ outcome = Pending
    /\ result = Pending
    /\ voice_mode = FALSE
    /\ spoken = FALSE
    /\ appended = <<>>
    /\ before = <<>>

\* an empty store, under either value of PERSISTENCE_FILE
InitStore ==
    /\ AgentStarts
    /\ persistence_file \in Paths
    /\ files = NoFiles
    /\ puts = NoPuts

\* context_manager.execute('set_profile', key=key, value=value)
SetProfileCall(key, value, now) ==
    /\ pc = "Idle"
    /\ op' = "set_profile"
    /\ call' = [tool |-> "context_manager",
                args |-> [action |-> "set_profile", key |-> key, value |-> value]]
    /\ files' = _set_user_profile(files, persistence_file, key, value, now)
    /\ result' = Return("dict", Ok)
    /\ pc' = "Returned"
    /\ UNCHANGED <<tools, conversation_history, user_input, intent_data, outcome,
                   voice_mode, spoken, appended, before, persistence_file, puts>>

\* context_manager.execute('get_profile', key=key)
GetProfileCall(key) ==
    /\ pc = "Idle"
    /\ op' = "get_profile"
    /\ call' = [tool |-> "context_manager", args |-> [action |-> "get_profile", key |-> key]]
    /\ result' = _get_user_profile(files, key)
    /\ pc' = "Returned"
    /\ UNCHANGED <<tools, conversation_history, user_input, intent_data, outcome,
                   voice_mode, spoken, appended, before, store>>

\* context_manager.execute('add_topic', topic=topic)
AddTopicCall(topic) ==
    /\ pc = "Idle"
    /\ op' = "add_topic"
    /\ call' = [tool |-> "context_manager", args |-> [action |-> "add_topic", topic |-> topic]]
    /\ LET done == _add_important_topic(files, persistence_file, topic)
       IN  files' = done.fs /\ result' = done.result
    /\ pc' = "Returned"
    /\ UNCHANGED <<tools, conversation_history, user_input, intent_data, outcome,
                   voice_mode, spoken, appended, before, persistence_file, puts>>

\* context_manager.execute('get_topics')
GetTopicsCall ==
    /\ pc = "Idle"
    /\ op' = "get_topics"
    /\ call' = [tool |-> "context_manager", args |-> [action |-> "get_topics"]]
    /\ result' = Return("list", _get_important_topics(files))
    /\ pc' = "Returned"
    /\ UNCHANGED <<tools, conversation_history, user_input, intent_data, outcome,
                   voice_mode, spoken, appended, before, store>>

\* main.py:375-377: a line that starts with :profile is read at the prompt and
\* _handle_profile_command handles it
ProfileCommand(line, now) ==
    /\ pc = "Idle"
    /\ StartsWith(Lower(line), ":profile")
    /\ op' = ":profile"
    /\ LET command == _handle_profile_command(line)
       IN  /\ call' = [tool |-> IF command.does \in {"set_profile", "get_profile"}
                                THEN "context_manager" ELSE "",
                       args |-> command,
                       line |-> line]
           /\ files' = IF command.does = "set_profile"
                       THEN _set_user_profile(files, persistence_file, command.key,
                                              command.value, now)
                       ELSE files
           /\ result' = IF command.does = "get_profile"
                        THEN _get_user_profile(files, command.key)
                        ELSE Return("NoneType", None)
    /\ pc' = "Returned"
    /\ UNCHANGED <<tools, conversation_history, user_input, intent_data, outcome,
                   voice_mode, spoken, appended, before, persistence_file, puts>>

NextStore ==
    \/ \E key \in ProfileKeys, value \in ProfileValues, now \in Timestamps :
            SetProfileCall(key, value, now)
    \/ \E key \in ProfileKeys : GetProfileCall(key)
    \/ \E topic \in TopicInputs : AddTopicCall(topic)
    \/ GetTopicsCall
    \/ \E line \in ProfileLines, now \in Timestamps : ProfileCommand(line, now)
    \/ ReturnToCaller

SpecStore == InitStore /\ [][NextStore]_vars

-----------------------------------------------------------------------------
\* PersistTool.execute (persist.py:22-36) run by two processes at once, statement
\* by statement, on the same persistence file

Procs == {1, 2}

\* what each process puts
PutKey == <<"theme", "volume">>

PutValue == <<"dark", "low">>

\* the other process
Other(p) == 3 - p

\* the store when the two processes start: no file yet, or one with an entry
InitPersist ==
    /\ AgentStarts
    /\ persistence_file \in Paths
    /\ \E content \in {Absent, json_dump([language |-> "en"])} :
            files = [NoFiles EXCEPT ![persistence_file] = content]
    /\ puts = [p \in Procs |->
                [pc |-> "start", data |-> EmptyDict, concurrent |-> FALSE]]

\* persist.py:23-24: data = {}; os.path.exists(config.PERSISTENCE_FILE)
PutBegin(p) ==
    /\ puts[p].pc = "start"
    /\ puts' = [puts EXCEPT ![p] =
                    [pc |-> IF exists(files, persistence_file) THEN "loading" ELSE "storing",
                     data |-> EmptyDict,
                     concurrent |-> puts[Other(p)].pc \notin {"start", "done"}]]
    /\ UNCHANGED <<tools, conversation_history, pc, op, user_input, intent_data, call,
                   outcome, result, voice_mode, spoken, appended, before,
                   persistence_file, files>>

\* persist.py:25-29: data = json.load(f); a failure is passed over
PutLoad(p) ==
    /\ puts[p].pc = "loading"
    /\ LET loaded == json_load(files[persistence_file])
       IN  puts' = [puts EXCEPT ![p].pc = "storing",
                                ![p].data = IF loaded.kind = "return" THEN loaded.value
                                            ELSE EmptyDict]
    /\ UNCHANGED <<tools, conversation_history, pc, op, user_input, intent_data, call,
                   outcome, result, voice_mode, spoken, appended, before,
                   persistence_file, files>>

\* persist.py:31-33: data[key] = value; open(config.PERSISTENCE_FILE, 'w')
\* truncates the file
PutOpen(p) ==
    /\ puts[p].pc = "storing"
    /\ puts' = [puts EXCEPT ![p].pc = "dumping",
                            ![p].data = SetItem(puts[p].data, PutKey[p], PutValue[p])]
    /\ files' = [files EXCEPT ![persistence_file] = Partial]
    /\ UNCHANGED <<tools, conversation_history, pc, op, user_input, intent_data, call,
                   outcome, result, voice_mode, spoken, appended, before,
                   persistence_file>>

\* persist.py:34-36: json.dump(data, f) and the file is closed. When the other
\* process wrote the file since this one opened it, the two texts lie over each
\* other: the outcome is this process's text or an unreadable mix.
PutDump(p) ==
    /\ puts[p].pc = "dumping"
    /\ puts' = [puts EXCEPT ![p].pc = "done"]
    /\ \E content \in {json_dump(puts[p].data)}
                      \cup (IF files[persistence_file].kind = "json" THEN {Partial} ELSE {}) :
            files' = [files EXCEPT ![persistence_file] = content]
    /\ UNCHANGED <<tools, conversation_history, pc, op, user_input, intent_data, call,
                   outcome, result, voice_mode, spoken, appended, before,
                   persistence_file>>

NextPersist ==
    \E p \in Procs : PutBegin(p) \/ PutLoad(p) \/ PutOpen(p) \/ PutDump(p)

SpecPersist == InitPersist /\ [][NextPersist]_vars

-----------------------------------------------------------------------------
\* Properties

\* the last n entries of a sequence, n <= Len(seq)
LastN(seq, n) == SubSeq(seq, Len(seq) - n + 1, Len(seq))

RouteReturned == pc = "Returned" /\ op = "route_and_execute"

\* C1: after any sequence of chat turns, other turns and clears, the history
\* holds at most 40 entries and is exactly the most recent (up to 40) entries
\* appended since the last clear, in the order they were appended.
C1_HistoryIsRecentTail ==
    /\ Len(conversation_history) <= 40
    /\ conversation_history =
            LastN(appended, IF Len(appended) < 40 THEN Len(appended) ELSE 40)

\* C1 witness: a chat turn has just pushed the oldest entries out.
C1_Evicted == RouteReturned /\ Len(appended) > 40 /\ conversation_history # before

\* C2: route_and_execute on an intent name that is not registered returns an
\* error value (a str) that names the missing tool, and does not raise.
C2_UnknownToolNamed ==
    (RouteReturned /\ intent_data.intent \notin tools) =>
        /\ result.kind = "return"
        /\ result.type = "str"
        /\ Contains(result.value, intent_data.intent)

\* C3: parse_intent never raises to its caller: whatever line reaches the
\* classifier, it returns an intent record (a mapping with intent and args).
C3_ClassifierNeverRaises ==
    (op = "turn" /\ pc # "Classifying") =>
        /\ pc # "Failed"
        /\ parse_intent(user_input).kind = "return"
        /\ DOMAIN intent_data = {"intent", "args"}

\* C4: an exception raised by a handler is caught in route_and_execute, which
\* returns the str "Error: <message of the exception>"; route_and_execute itself
\* never ends by raising.
C4_HandlerExceptionCaught ==
    RouteReturned =>
        /\ result.kind = "return"
        /\ outcome.kind = "raise" =>
                result.type = "str" /\ result.value = "Error: " \o outcome.msg

\* C4 witness: route_and_execute has returned after its handler raised.
C4_HandlerRaised == RouteReturned /\ outcome.kind = "raise"

\* a turn whose handler failed: it raised, or it is a chat turn whose model call
\* failed (missing dependency or call error)
HandlerFailed ==
    \/ outcome.kind = "raise"
    \/ /\ call.tool = "chat"
       /\ outcome.kind = "return"
       /\ IsModelFailure(outcome.value)

\* C5: a turn whose handler fails leaves the conversation history and the
\* registry as they were before the turn, also when the failure is a failed
\* model call of a chat turn.
C5_FailedTurnLeavesState ==
    (RouteReturned /\ HandlerFailed) =>
        /\ conversation_history = before
        /\ tools = RegisteredTools

\* C6: while and after route_and_execute handles an intent other than chat, the
\* conversation history is what it was when the call began, whether the handler
\* returns, the handler raises or the intent is not registered.
C6_NonChatLeavesHistory ==
    (op = "route_and_execute" /\ intent_data.intent # "chat") =>
        conversation_history = before

\* C6 witness: a non-chat routing whose handler raised has returned, with turns
\* in the history.
C6_NonChatRaised ==
    /\ RouteReturned
    /\ intent_data.intent # "chat"
    /\ outcome.kind = "raise"
    /\ Len(before) > 0

\* a chat routing in progress, with its message m
ChatRouting ==
    /\ op = "route_and_execute"
    /\ intent_data.intent = "chat"
    /\ "message" \in DOMAIN intent_data.args

\* C7: the chat handler is called with conversation_context = the last
\* min(10, length) turns of the history as it was before the turn, in order and
\* without the current message; the history is untouched until the handler has
\* returned, and then {user, m} and {assistant, r} are appended in that order.
C7_ChatContextThenAppend ==
    ChatRouting =>
        LET m == intent_data.args.message
        IN  /\ pc \in {"Dispatching", "Executing", "UpdatingHistory"} =>
                    conversation_history = before
            /\ pc \in {"Executing", "UpdatingHistory"} =>
                    LET context == call.args.conversation_context
                    IN  /\ context =
                              LastN(before, IF Len(before) < 10 THEN Len(before) ELSE 10)
                        /\ \A i \in 1..Len(context) : context[i].content # m
                        /\ call.args.message = m
            /\ (pc = "Returned" /\ outcome.kind = "return") =>
                    LET n == Len(conversation_history)
                    IN  /\ n >= 2
                        /\ conversation_history[n - 1] = [role |-> "user", content |-> m]
                        /\ conversation_history[n] =
                                [role |-> "assistant", content |-> outcome.value]
                        /\ result = outcome
                        /\ SubSeq(conversation_history, 1, n - 2) = LastN(before, n - 2)

\* C7 witness: a chat turn has been recorded whose history held more than 10 turns.
C7_LongHistoryChat ==
    ChatRouting /\ pc = "Returned" /\ outcome.kind = "return" /\ Len(before) > 10

\* C8: get_conversation_context(n), n >= 0, returns exactly the last
\* min(n, length) turns of the history, in order (the empty sequence for an empty
\* history).
C8_ContextIsLastN ==
    (pc = "Returned" /\ op = "get_conversation_context") =>
        LET n == call.args.max_messages
        IN  result.value = LastN(before, IF Len(before) < n THEN Len(before) ELSE n)

\* get_conversation_context(n) is empty for every n a caller may pass
ContextEmpty ==
    \A n \in (-MaxContext)..MaxContext :
        get_conversation_context(conversation_history, n) = <<>>

StageOrder ==
    /\ pc = "Classifying" => pc' \in {"Classifying", "Dispatching", "Stopped"}
    /\ pc = "Dispatching" => pc' \in {"Dispatching", "Executing", "Returned", "Stopped"}
    /\ pc = "Executing" => pc' \in {"Executing", "UpdatingHistory", "Returned", "Stopped"}
    /\ pc = "UpdatingHistory" => pc' \in {"UpdatingHistory", "Returned", "Stopped"}
    /\ pc = "Returned" => pc' \in {"Returned", "Idle", "Stopped"}

\* C10: a turn that reaches classification passes Classifying, then Dispatching,
\* then optionally Executing and Updating-History, and ends back at the prompt
\* (unless the user interrupts the process).
C10_TurnStages ==
    /\ [][StageOrder]_vars
    /\ (pc = "Classifying") ~> (pc \in {"Idle", "Stopped"})

-----------------------------------------------------------------------------
\* Properties of the classifier

\* parse_intent has just ended, on the text ParsedText
ParseReturned == pc = "Returned" /\ op = "parse_intent"

ParsedText == call.args.user_input

\* the keywords that send an input to a tool
TriggerKeywords ==
    QuizKeywords \o FlashcardKeywords \o MathKeywords \o SearchKeywords \o FilesKeywords
        \o VizKeywords \o TtsKeywords

\* C11: every intent name parse_intent returns (quiz, flashcards, math, search,
\* files, viz, tts, chat) is registered, so a record of the classifier that is
\* routed reaches a handler and never the unknown-tool path.
C11_IntentsRegistered ==
    /\ (ParseReturned /\ result.kind = "return") =>
            /\ result.value.intent \in
                    {"quiz", "flashcards", "math", "search", "files", "viz", "tts", "chat"}
            /\ result.value.intent \in tools
    /\ op = "route_and_execute" => intent_data.intent \in tools
    /\ RouteReturned => call.tool = intent_data.intent /\ outcome.kind # "pending"

\* C11 witness: a record the classifier built for the tts tool was routed and
\* reached the handler.
C11_ParsedRouted == RouteReturned /\ intent_data.intent = "tts" /\ call.tool = "tts"

QuizMentions == {text \in Texts : Contains(Lower(text), "quiz")}

\* C13: every input whose lower-cased text contains "quiz" is classified as quiz,
\* with args topic, level "medium" and count 5.
C13_QuizKeywordWins ==
    (ParseReturned /\ ParsedText \in QuizMentions) =>
        /\ result.kind = "return"
        /\ result.value.intent = "quiz"
        /\ DOMAIN result.value.args = {"topic", "level", "count"}
        /\ result.value.args.level = "medium"
        /\ result.value.args.count = 5

\* the inputs "quiz me on X" and "make a quiz on X" for the non-empty X, each with
\* X trimmed of surrounding whitespace
QuizOnCases ==
    {[text |-> opening \o X, trimmed |-> Strip(X)] :
        opening \in {"quiz me on ", "make a quiz on "}, X \in Topics \ {""}}

\* C14: for every non-empty X, "quiz me on X" and "make a quiz on X" are classified
\* as quiz with topic X trimmed of surrounding whitespace, in the case typed,
\* level "medium" and count 5.
C14_QuizTopicAsTyped ==
    ParseReturned =>
        \A c \in QuizOnCases :
            ParsedText = c.text =>
                result = Return("dict",
                    [intent |-> "quiz",
                     args |-> [topic |-> c.trimmed, level |-> "medium", count |-> 5]])

\* whether X holds one of the classifier's keywords (a tool trigger or a list
\* command), in any letter case
HasKeyword(X) == ContainsAny(Lower(X), TriggerKeywords \o ListCommands)

\* the inputs "create flashcards for X" for the X without keywords, each with X
\* and X trimmed of surrounding whitespace
FlashcardsForCases ==
    {[text |-> "create flashcards for " \o X, typed |-> X, trimmed |-> Strip(X)] :
        X \in {T \in Topics : ~HasKeyword(T)}}

ListRequests ==
    {text \in Texts :
        LET low == Lower(text)
        IN  /\ ContainsAny(low, <<"flashcards", "flashcard", "anki", "study cards">>)
            /\ ~Contains(low, "quiz")
            /\ ContainsAny(low, <<"list", "show", "display">>)}

\* C16: an input with a flashcard trigger (flashcards, flashcard, anki, study
\* cards), without "quiz" and with one of list, show, display is classified as
\* flashcards, action list, deck null, whatever else it holds.
C16_ListFlashcards ==
    (ParseReturned /\ ParsedText \in ListRequests) =>
        result = Return("dict",
            [intent |-> "flashcards", args |-> [action |-> "list", deck |-> None]])

\* C16 witness: a list request that also holds a math trigger was classified.
C16_ListAmongOtherWords ==
    /\ ParseReturned
    /\ ParsedText = "solve flashcards show"
    /\ result.kind = "return"
    /\ result.value.args.action = "list"

\* the inputs "solve E" for the E without a quiz or flashcard trigger, each with
\* E trimmed of surrounding whitespace
SolveCases ==
    {[text |-> "solve " \o E, trimmed |-> Strip(E)] :
        E \in {T \in Topics : ~ContainsAny(Lower(T), QuizKeywords \o FlashcardKeywords)}}

\* C17: for every E without a quiz or flashcard trigger, "solve E" is classified
\* as math with expression E as typed, only surrounding whitespace removed.
C17_SolveKeepsExpression ==
    ParseReturned =>
        \A c \in SolveCases :
            ParsedText = c.text =>
                result = Return("dict",
                    [intent |-> "math", args |-> [expression |-> c.trimmed]])

\* the texts that hold none of the trigger keywords
UnmatchedTexts == {text \in Texts : ~ContainsAny(Strip(Lower(text)), TriggerKeywords)}

\* C18: an input that matches none of the trigger keyword sets is classified as
\* chat, with the original text, character for character, as the message.
C18_UnmatchedIsChat ==
    (ParseReturned /\ ParsedText \in UnmatchedTexts) =>
        result = Return("dict", [intent |-> "chat", args |-> [message |-> ParsedText]])

\* C18 witness: a text with capitals and surrounding blanks, and no trigger, was
\* classified.
C18_UntrimmedMessage ==
    /\ ParseReturned
    /\ ParsedText = " Hello there "
    /\ result.kind = "return"
    /\ result.value.intent = "chat"

\* the texts that start with a question-like prefix, in any letter case
QuestionTexts ==
    {text \in Texts :
        \E p \in {"explain", "what is", "what are", "who is", "who are", "how does",
                  "how do", "why"} : StartsWith(Strip(Lower(text)), p)}

\* C19: an input that starts with a question-like prefix is classified as chat
\* with the full original text as the message, also when the rest of it holds a
\* tool trigger word.
C19_QuestionIsChat ==
    (ParseReturned /\ ParsedText \in QuestionTexts) =>
        result = Return("dict", [intent |-> "chat", args |-> [message |-> ParsedText]])

-----------------------------------------------------------------------------
\* Properties of the input loop

\* the variables a KeyboardInterrupt leaves alone
LoopState ==
    <<tools, conversation_history, op, user_input, intent_data, call, outcome, result,
      voice_mode, spoken, appended, before>>

\* why the loop may stop: a quit command was read, the input ended or was
\* interrupted at the prompt, or the turn in progress was interrupted
StopsOnRequest ==
    (pc # "Stopped" /\ pc' = "Stopped") =>
        \/ /\ pc = "Idle"
           /\ Lower(user_input') \in {"quit", "exit", ":quit", ":exit"}
        \/ UNCHANGED LoopState

\* a reported exception puts the loop back at the prompt
ErrorReported ==
    (pc = "Failed" /\ pc' # "Failed") =>
        \/ pc' = "Idle" /\ UNCHANGED <<tools, conversation_history, voice_mode>>
        \/ pc' = "Stopped" /\ UNCHANGED LoopState

\* C20: the loop stops only on a quit command (in any letter case, and then
\* always), on end of input or on an interrupt; an exception raised while a turn
\* is processed, the classifier's included, is reported and the loop prompts for
\* the next input.
C20_LoopSurvivesErrors ==
    /\ [][StopsOnRequest /\ ErrorReported]_vars
    /\ [](pc = "Idle" => Lower(user_input) \notin {"quit", "exit", ":quit", ":exit"})
    /\ (pc = "Failed") ~> (pc \in {"Idle", "Stopped"})

\* C20 witness: the loop is at the prompt again after a turn whose classifier
\* raised.
C20_PromptAfterError ==
    /\ pc = "Idle"
    /\ user_input \in Lines
    /\ Classification[user_input].kind = "raise"

\* the lines that are REPL commands, quit commands or voice-mode phrases, in any
\* letter case, and the blank lines
CommandLines ==
    {line \in Lines :
        LET low == Lower(line)
        IN  \/ Strip(line) = ""
            \/ low \in {":help", ":tools", "quit", "exit", ":quit", ":exit"}
            \/ \E prefix \in {":profile", ":topics", ":preferences"} : StartsWith(low, prefix)
            \/ low \in {"enable voice mode", "disable voice mode", "voice mode on",
                        "voice mode off"}}

\* C21: REPL commands, quit commands, voice-mode phrases and blank inputs are
\* handled before classification: for such a line neither parse_intent nor
\* route_and_execute is called, and the conversation history is unchanged.
C21_CommandsBypassClassifier ==
    /\ [](user_input \in CommandLines => (pc \in {"Idle", "Stopped"} /\ op = ""))
    /\ [][(pc = "Idle" /\ user_input' \in CommandLines) =>
            /\ conversation_history' = conversation_history
            /\ appended' = appended
            /\ intent_data' = intent_data
            /\ call' = call
            /\ result' = result]_vars

\* C21 witness: a :profile command was handled at the prompt with turns in the
\* history.
C21_CommandHandled ==
    pc = "Idle" /\ user_input = ":profile show" /\ Len(conversation_history) > 0

-----------------------------------------------------------------------------
\* Properties of the store

\* C23: profile round trip: after set_profile with key k and value v,
\* get_profile with key k returns v, for every key and every persistence path.
C23_ProfileRoundTrip ==
    (pc = "Returned" /\ op = "set_profile") =>
        _get_user_profile(files, call.args.key) = Return("str", call.args.value)

\* the file both processes write
PutFile == files[persistence_file]

BothPutsDone == \A p \in Procs : puts[p].pc = "done"

\* C24: two processes put a value under different keys with the unlocked
\* read-whole-file, modify, write-whole-file sequence: when the puts run one
\* after the other, in either order, the file holds both keys afterwards (and
\* what it held before); a lost update takes puts that overlap.
C24_SerialPutsKeepBothKeys ==
    (BothPutsDone /\ \A p \in Procs : ~puts[p].concurrent) =>
        /\ PutFile.kind = "json"
        /\ \A p \in Procs :
                /\ PutKey[p] \in DOMAIN PutFile.data
                /\ PutFile.data[PutKey[p]] = PutValue[p]

\* C24 witness: both puts are done and the file lacks the key of the first
\* process while it holds the key of the second: a lost update.
C24_LostUpdate ==
    /\ BothPutsDone
    /\ PutFile.kind = "json"
    /\ PutKey[1] \notin DOMAIN PutFile.data
    /\ PutKey[2] \in DOMAIN PutFile.data

\* C25: for every record the classifier produces, route_and_execute runs the
\* handler with the record's arguments: execute accepts every argument name, so
\* the call never ends in an argument-mismatch TypeError and the router returns
\* the handler's own return value; "Speak hello world" reaches the TTS tool.
C25_ArgumentsAccepted ==
    (RouteReturned /\ intent_data.intent \in tools) =>
        /\ DOMAIN intent_data.args \subseteq DOMAIN call.args
        /\ ~(outcome.kind = "raise" /\ outcome.cls = "TypeError")
        /\ outcome.kind = "return" => result = outcome
        /\ (intent_data.intent = "tts" /\ intent_data.args.text = "hello world") =>
                outcome.kind = "return"

\* the separators of the topic, in the priority order of the claim
Separators == <<"for ", "about ", "on ">>

\* the remainder of text after the first occurrence of the first separator of
\* Separators that occurs in text, trimmed
AfterFirstSeparator(text) ==
    LET sep == FirstContained(text, Separators)[1]
    IN  Strip(From(text, Find(text, sep) - 1 + Len(sep)))

\* the quiz and flashcard-generation inputs in which a separator occurs as typed
SeparatorCases ==
    {text \in Texts :
        /\ \/ ContainsAny(Lower(text), QuizKeywords)
           \/ /\ ContainsAny(Lower(text), FlashcardKeywords)
              /\ ~ContainsAny(Lower(text), ListCommands)
        /\ ContainsAny(text, Separators)}

\* the topic the priority order for, about, on gives each of those inputs
SeparatorTopic == [text \in SeparatorCases |-> AfterFirstSeparator(text)]

\* C26: for quiz and flashcard inputs the first of the separators "for ",
\* "about ", "on " that occurs in the input decides, and the topic is the
\* remainder of the input after that separator's first occurrence.
C26_SeparatorPriority ==
    (ParseReturned /\ ParsedText \in SeparatorCases) =>
        /\ result.kind = "return"
        /\ result.value.args.topic = SeparatorTopic[ParsedText]

\* the texts that satisfy the condition of the second flashcards branch
SecondBranchTexts == {text \in Texts : ContainsAny(Strip(Lower(text)), FlashcardKeywords2)}

\* C27: the second flashcards branch of parse_intent is dead: the classifier with
\* that branch removed returns the same record, or raises the same exception, as
\* the original for every input.
C27_SecondBranchDead ==
    ParseReturned => result = ParsedWithoutSecondBranch[ParsedText]

\* C27 witness: an input that satisfies the condition of the second flashcards
\* branch, and no quiz keyword, was classified as a flashcards request.
C27_FlashcardsClassified ==
    /\ ParseReturned
    /\ ParsedText \in SecondBranchTexts \ QuizMentions
    /\ result.kind = "return"
    /\ result.value.intent = "flashcards"
    /\ result.value.args.action = "generate"

\* the profile as stored in the file PersistTool writes
StoredProfile == Stored("user_profile", EmptyDict)

\* C28: ":profile set <key> <value>" executes set_profile with that key and value
\* and stores the value under the key, ":profile get <key>" executes get_profile
\* with that key, and ":profile show" executes get_profile for the whole profile.
C28_ProfileCommandsWork ==
    (pc = "Returned" /\ op = ":profile") =>
        /\ call.line = ":profile set name Bob" =>
                /\ call.args = [does |-> "set_profile", key |-> "name", value |-> "Bob"]
                /\ "name" \in DOMAIN StoredProfile
                /\ StoredProfile["name"] = "Bob"
        /\ call.line = ":profile get name" =>
                call.args = [does |-> "get_profile", key |-> "name"]
        /\ call.line = ":profile show" =>
                call.args = [does |-> "get_profile", key |-> ""]

\* C29: in every reachable state the history has even length and alternates
\* user, assistant, starting with user, each assistant entry being the reply
\* recorded with the user entry before it; truncation to 40 entries never splits
\* a pair.
C29_HistoryAlternates ==
    /\ Len(conversation_history) % 2 = 0
    /\ Len(conversation_history) <= Len(appended)
    /\ (Len(appended) - Len(conversation_history)) % 2 = 0
    /\ \A i \in 1..Len(conversation_history) :
            /\ conversation_history[i].role = IF i % 2 = 1 THEN "user" ELSE "assistant"
            /\ conversation_history[i] =
                    appended[Len(appended) - Len(conversation_history) + i]

\* C29 witness: more than 40 entries were appended and the history was cut to 40,
\* beginning with a user turn.
C29_TruncatedPairs ==
    /\ Len(appended) > MaxHistory + 2
    /\ Len(conversation_history) = MaxHistory
    /\ conversation_history[1].role = "user"
    /\ conversation_history[2].role = "assistant"

\* whether topic is in the list, ignoring letter case
KnownTopic(topics, topic) ==
    \E i \in 1..Len(topics) : Lower(topics[i]) = Lower(topic)

\* what an add_topic call does to the stored list
AddTopicEffect ==
    (pc = "Idle" /\ op' = "add_topic") =>
        LET topic == call'.args.topic
            old == StoredTopics
            new == StoredTopics'
        IN  /\ topic = "" =>
                    /\ files' = files
                    /\ result'.kind = "return"
                    /\ "error" \in DOMAIN result'.value
            /\ (topic # "" /\ KnownTopic(old, topic)) => new = old
            /\ (topic # "" /\ ~KnownTopic(old, topic) /\ Len(old) = 20) =>
                    new = Append(Tail(old), topic)

\* C30: from an empty store, after any add_topic calls the stored topics are at
\* most 20 and no two are equal ignoring letter case; adding a topic that is
\* present leaves the list unchanged, adding a new one to a full list drops the
\* oldest, and adding the empty topic returns an error and writes nothing.
C30_TopicsBoundedAndDistinct ==
    /\ [](/\ Len(StoredTopics) <= 20
          /\ \A i, j \in 1..Len(StoredTopics) :
                Lower(StoredTopics[i]) = Lower(StoredTopics[j]) => i = j)
    /\ [][AddTopicEffect]_vars

====
